---------------------------- MODULE Spec2Model ----------------------------
(***************************************************************************)
(* Instrumentation of the google-genai generate_content entry points:      *)
(* the methods snapshot (install / restore), the per-call helper           *)
(* (_GenerateContentInstrumentationHelper) and the four adapters           *)
(* (sync, sync stream, async, async stream) of generate_content.py.        *)
(***************************************************************************)
EXTENDS Integers, Sequences, FiniteSets, TLC

(***************************************************************************)
(* Bounds of the model.                                                    *)
(***************************************************************************)
\* chunks one original stream may produce
MaxChunks == 2
\* calls of instrument_generate_content
MaxInstalls == 2
\* iterations (__aiter__) started on one returned async sequence
MaxAiter == 2

(***************************************************************************)
(* Python values.  Every value is a record with a kind, so that values of  *)
(* different Python types can be compared.                                 *)
(***************************************************************************)
None == [kind |-> "None"]
PyInt(n) == [kind |-> "int", n |-> n]
PyBool(b) == [kind |-> "bool", b |-> b]
PyStr(s) == [kind |-> "str", s |-> s]
\* a member of an enumeration (BlockedReason, FinishReason)
PyEnum(name) == [kind |-> "enum", name |-> name]
PyList(items) == [kind |-> "list", items |-> items]
\* a mapping
PyDict(f) == [kind |-> "dict", fields |-> f]
\* an attributed value of the client library (a pydantic model: has model_dump)
PyObj(f) == [kind |-> "obj", fields |-> f]
\* a plain function (coroutine = FALSE) or a coroutine function
PyFunction(name, coroutine) == [kind |-> "function", name |-> name, coroutine |-> coroutine]
\* the outcome "an exception of class exc was raised"
Raise(exc) == [kind |-> "raise", exc |-> exc]

IsRaise(v) == v.kind = "raise"

\* Python truth value of v (bool(v))
Truthy(v) ==
    CASE v.kind = "None" -> FALSE
      [] v.kind = "int" -> v.n # 0
      [] v.kind = "bool" -> v.b
      [] v.kind = "str" -> v.s # ""
      [] v.kind = "list" -> v.items # <<>>
      [] v.kind = "dict" -> DOMAIN v.fields # {}
      [] OTHER -> TRUE

\* isinstance(v, int): bool is a subclass of int
IsInstanceInt(v) == v.kind \in {"int", "bool"}

\* the integer an int or bool adds to a sum
IntValue(v) ==
    CASE v.kind = "int" -> v.n
      [] v.kind = "bool" -> IF v.b THEN 1 ELSE 0
      [] OTHER -> 0

\* classes that derive from Exception (caught by "except Exception");
\* CancelledError, KeyboardInterrupt and GeneratorExit derive from
\* BaseException only
IsException(exc) == exc \notin {"none", "CancelledError", "KeyboardInterrupt", "GeneratorExit"}

(***************************************************************************)
(* Field extractor.                                                        *)
(***************************************************************************)
\* str.split("."): a dotted path is kept as its tokens, "." included
RECURSIVE Split(_)
Split(path) ==
    IF path = <<>> THEN <<"">>
    ELSE IF Head(path) = "." THEN <<"">> \o Split(Tail(path))
    ELSE LET rest == Split(Tail(path))
         IN  <<Head(path)>> \o (IF Head(rest) = "" THEN Tail(rest) ELSE rest)

\* the loop of _get_config_property / _get_response_property
RECURSIVE WalkPath(_, _)
WalkPath(current_context, path_segments) ==
    IF path_segments = <<>> THEN current_context
    ELSE IF current_context = None THEN None
    ELSE IF current_context.kind = "dict"
         THEN WalkPath(IF Head(path_segments) \in DOMAIN current_context.fields
                       THEN current_context.fields[Head(path_segments)]
                       ELSE None,
                       Tail(path_segments))
    ELSE IF current_context.kind = "obj" /\ Head(path_segments) \in DOMAIN current_context.fields
         THEN WalkPath(current_context.fields[Head(path_segments)], Tail(path_segments))
    ELSE Raise("AttributeError")

\* an extractor that indexes a mapping (config[key]) where the code has .get
GetConfigPropertyIndexing(config, path) ==
    IF config = None THEN None
    ELSE IF config.kind = "dict" /\ Head(Split(path)) \notin DOMAIN config.fields
    THEN Raise("KeyError")
    ELSE WalkPath(config, Split(path))

_get_config_property(config, path) ==
    IF config = None THEN None ELSE WalkPath(config, Split(path))

_get_response_property(response, path) == WalkPath(response, Split(path))

\* _to_dict: a mapping is returned as is, a model is dumped, anything else
\* goes through json.dumps, which raises TypeError on a value that is not
\* JSON (a model inside a list, a function)
RECURSIVE JsonSerializable(_)
JsonSerializable(value) ==
    CASE value.kind \in {"None", "int", "bool", "str"} -> TRUE
      [] value.kind = "list" ->
            \A i \in 1..Len(value.items) : JsonSerializable(value.items[i])
      [] value.kind = "dict" ->
            \A k \in DOMAIN value.fields : JsonSerializable(value.fields[k])
      [] OTHER -> FALSE

_to_dict(value) ==
    IF value.kind = "dict" THEN value
    ELSE IF value.kind = "obj" THEN PyDict(value.fields)
    ELSE IF JsonSerializable(value) THEN value
    ELSE Raise("TypeError")

(***************************************************************************)
(* Constants of generate_content.py.                                       *)
(***************************************************************************)
_CONTENT_ELIDED == PyStr("<elided>")
_GENERATE_CONTENT_OP_NAME == "generate_content"

(***************************************************************************)
(* Backend system identification.                                          *)
(***************************************************************************)
_get_vertexai_system_name == "vertex_ai"
_get_gemini_system_name == "gemini"

\* str.lower() on the values the environment toggle takes in the model
Lower(s) ==
    CASE s = "TRUE" -> "true"
      [] s = "True" -> "true"
      [] s = "tRuE" -> "true"
      [] s = "FALSE" -> "false"
      [] s = "False" -> "false"
      [] s = "YES" -> "yes"
      [] OTHER -> s

\* environ is a mapping from names to strings
_guess_genai_system_from_env(environ) ==
    IF Lower(IF "GOOGLE_GENAI_USE_VERTEXAI" \in DOMAIN environ
             THEN environ["GOOGLE_GENAI_USE_VERTEXAI"] ELSE "0") \in {"true", "1"}
    THEN _get_vertexai_system_name
    ELSE _get_gemini_system_name

\* hasattr(o, name)
HasAttr(o, name) == o.kind = "obj" /\ name \in DOMAIN o.fields

_get_is_vertexai(models_object) ==
    IF HasAttr(models_object, "vertexai") /\ models_object.fields["vertexai"] # None
    THEN models_object.fields["vertexai"]
    ELSE IF HasAttr(models_object, "_api_client")
    THEN LET client == models_object.fields["_api_client"]
         IN  IF ~Truthy(client) THEN None
             ELSE IF HasAttr(client, "vertexai") THEN client.fields["vertexai"]
             ELSE None
    ELSE None

\* a resolution in which a flag that is false falls through to the environment
DetermineSystemFalseFallsThrough(models_object, environ) ==
    IF Truthy(_get_is_vertexai(models_object)) THEN _get_vertexai_system_name
    ELSE _guess_genai_system_from_env(environ)

_determine_genai_system(models_object, environ) ==
    LET vertexai_attr == _get_is_vertexai(models_object)
    IN  IF vertexai_attr = None THEN _guess_genai_system_from_env(environ)
        ELSE IF Truthy(vertexai_attr) THEN _get_vertexai_system_name
        ELSE _get_gemini_system_name

(***************************************************************************)
(* Request attribute extractors.                                           *)
(***************************************************************************)
_get_temperature(config) == _get_config_property(config, <<"temperature">>)
_get_top_k(config) == _get_config_property(config, <<"top_k">>)
_get_top_p(config) == _get_config_property(config, <<"top_p">>)

\* the keys of _SPAN_ATTRIBUTE_TO_CONFIG_EXTRACTOR, in insertion order
_SPAN_ATTRIBUTE_TO_CONFIG_EXTRACTOR ==
    <<"gen_ai.request.temperature", "gen_ai.request.top_k", "gen_ai.request.top_p">>

Extractor(attribute_key, config) ==
    CASE attribute_key = "gen_ai.request.temperature" -> _get_temperature(config)
      [] attribute_key = "gen_ai.request.top_k" -> _get_top_k(config)
      [] attribute_key = "gen_ai.request.top_p" -> _get_top_p(config)

(***************************************************************************)
(* State.                                                                  *)
(***************************************************************************)
VARIABLES
    Models,        \* the entry points bound on the class Models
    AsyncModels,   \* the entry points bound on the class AsyncModels
    snapshots,     \* the _MethodsSnapshot objects created so far (a handle is an index)
    bound_before,  \* for each handle, the entry points bound when its install began
    calls,         \* per call slot: adapter position, helper fields, what the sink and the caller received
    spans,         \* per call slot: the span opened for the call
    current,       \* the span that is current in the context (0: none)
    uninstall_raised, \* what the latest uninstrument_generate_content raised
    uninstalled    \* history, where kept: per install, how often its snapshot
                   \* was restored (2: more than once)

vars == <<Models, AsyncModels, snapshots, bound_before, calls, spans, current,
          uninstall_raised, uninstalled>>

\* call slots: the calls that can be in progress at the same time, made by
\* one thread (one task) that interleaves them
Slots == {1, 2}

\* the request model of the calls
ModelName == "gemini-2.0-flash"

NoSpan == [state |-> "none", ends |-> 0, attrs |-> <<>>]

IdleCall ==
    [shape |-> "none", pc |-> "idle", exc |-> "none",
     \* fields of _GenerateContentInstrumentationHelper
     _genai_system |-> "", _genai_request_model |-> "",
     _finish_reasons_set |-> {}, _error_type |-> None,
     _input_tokens |-> 0, _output_tokens |-> 0,
     _content_recording_enabled |-> FALSE,
     _response_index |-> 0, _candidate_index |-> 0,
     constructed |-> FALSE,
     \* context token of the adapter's with block, and the generators
     token |-> 0, gens |-> <<>>,
     \* arguments held by a generator that has not started yet
     args |-> <<>>,
     \* the caller's config and contents: as they were given, and the same
     \* objects as they are now
     given |-> <<>>, caller |-> <<>>,
     \* the underlying call: what it was given, what it produced
     passed_config |-> <<>>, produced |-> <<>>, orig_raised |-> "none", exhausted |-> FALSE,
     \* what the helper processed and what the sink received
     processed |-> <<>>, events |-> <<>>, token_usage |-> <<>>, duration |-> <<>>,
     final_attrs |-> <<>>,
     \* what the caller received
     delivered |-> <<>>, result |-> "none", raised |-> "none",
     \* the steps of the call, in order
     log |-> <<>>]

World == [calls |-> calls, spans |-> spans, current |-> current]

Log(w, s, label) == [w EXCEPT !.calls[s].log = Append(@, label)]

\* an exception of class exc is in flight in the call of slot s
RaiseIn(w, s, exc) == [w EXCEPT !.calls[s].exc = exc]

Failed(w, s) == w.calls[s].exc # "none"

\* the next statement of a block runs unless the previous one raised
Then(w, s, Statement(_)) == IF Failed(w, s) THEN w ELSE Statement(w)

(***************************************************************************)
(* Telemetry sink (OTelWrapper, spans of the tracing API).  An operation   *)
(* of the sink named by `sink` raises SinkError when it is called.         *)
(***************************************************************************)
SinkFailures ==
    {"none", "set_attribute", "log_system_prompt", "log_user_prompt",
     "log_response_content", "token_usage_metric", "operation_duration_metric"}

\* span.set_attribute on the span `target`: nothing is kept by the invalid
\* span (0) nor by a span that has ended
SpanSetAttribute(w, target, key, value) ==
    IF target = 0 THEN w
    ELSE IF w.spans[target].state # "open" THEN w
    ELSE [w EXCEPT !.spans[target].attrs = (key :> value) @@ @]

\* one of log_system_prompt, log_user_prompt, log_response_content
EmitEvent(w, s, operation, body, sink) ==
    IF sink = operation THEN RaiseIn(w, s, "SinkError")
    ELSE [w EXCEPT !.calls[s].events =
              Append(@, [type |-> operation,
                         attributes |-> [gen_ai_system |-> w.calls[s]._genai_system],
                         body |-> body])]

\* context attach: the span of slot s becomes current; the value returned
\* is the token (the span that was current)
Attach(w, s) == [w EXCEPT !.current = s]

\* context detach with a token
Detach(w, token) == [w EXCEPT !.current = token]

\* span.end()
EndSpan(w, s) ==
    Log([w EXCEPT !.spans[s].state = "ended", !.spans[s].ends = @ + 1], s, "span_end")

(***************************************************************************)
(* _GenerateContentInstrumentationHelper.                                  *)
(***************************************************************************)
\* __init__
NewHelper(w, s, models_object, environ, model, content_recording_enabled) ==
    Log([w EXCEPT !.calls[s]._genai_system = _determine_genai_system(models_object, environ),
                  !.calls[s]._genai_request_model = model,
                  !.calls[s]._finish_reasons_set = {},
                  !.calls[s]._error_type = None,
                  !.calls[s]._input_tokens = 0,
                  !.calls[s]._output_tokens = 0,
                  !.calls[s]._content_recording_enabled = content_recording_enabled,
                  !.calls[s]._response_index = 0,
                  !.calls[s]._candidate_index = 0,
                  !.calls[s].constructed = TRUE],
        s, "helper")

\* start_span_as_current_span: the span is created and attached
start_span_as_current_span(w, s, function_name) ==
    Log(Attach([w EXCEPT !.spans[s] =
                   [state |-> "open", ends |-> 0,
                    attrs |-> [code_function_name |-> PyStr(function_name),
                               gen_ai_system |-> PyStr(w.calls[s]._genai_system),
                               gen_ai_request_model |-> PyStr(w.calls[s]._genai_request_model),
                               gen_ai_operation_name |-> PyStr(_GENERATE_CONTENT_OP_NAME)]]],
               s),
        s, "span_start")

\* the loop of process_request over _SPAN_ATTRIBUTE_TO_CONFIG_EXTRACTOR
RECURSIVE SetRequestAttributes(_, _, _, _, _)
SetRequestAttributes(w, s, config, keys, sink) ==
    IF keys = <<>> THEN w
    ELSE LET attribute_value == Extractor(Head(keys), config)
         IN  IF IsRaise(attribute_value) THEN RaiseIn(w, s, attribute_value.exc)
             ELSE IF attribute_value = None
             THEN SetRequestAttributes(w, s, config, Tail(keys), sink)
             ELSE IF sink = "set_attribute" THEN RaiseIn(w, s, "SinkError")
             ELSE SetRequestAttributes(
                      SpanSetAttribute(w, w.current, Head(keys), attribute_value),
                      s, config, Tail(keys), sink)

_maybe_log_system_instruction(w, s, config, sink) ==
    LET system_instruction == _get_config_property(config, <<"system_instruction">>)
    IN  IF IsRaise(system_instruction) THEN RaiseIn(w, s, system_instruction.exc)
        ELSE IF ~Truthy(system_instruction) THEN w
        ELSE LET content == IF w.calls[s]._content_recording_enabled
                            THEN _to_dict(system_instruction)
                            ELSE _CONTENT_ELIDED
             IN  IF IsRaise(content) THEN RaiseIn(w, s, content.exc)
                 ELSE EmitEvent(w, s, "log_system_prompt", [content |-> content], sink)

\* a slip: the content is logged whatever the recording flag says
LogSingleUserPromptVerbatim(w, s, contents, sink) ==
    LET logged_contents == IF contents.kind = "list"
                           THEN PyObj([parts |-> contents, role |-> None])
                           ELSE contents
        content == _to_dict(logged_contents)
    IN  IF IsRaise(content) THEN RaiseIn(w, s, content.exc)
        ELSE EmitEvent(w, s, "log_user_prompt", [content |-> content], sink)

_maybe_log_single_user_prompt(w, s, contents, sink) ==
    LET logged_contents == IF contents.kind = "list"
                           THEN PyObj([parts |-> contents, role |-> None])
                           ELSE contents
        content == IF w.calls[s]._content_recording_enabled
                   THEN _to_dict(logged_contents)
                   ELSE _CONTENT_ELIDED
    IN  IF IsRaise(content) THEN RaiseIn(w, s, content.exc)
        ELSE EmitEvent(w, s, "log_user_prompt", [content |-> content], sink)

RECURSIVE LogUserPromptEntries(_, _, _, _)
LogUserPromptEntries(w, s, entries, sink) ==
    IF entries = <<>> \/ Failed(w, s) THEN w
    ELSE LogUserPromptEntries(_maybe_log_single_user_prompt(w, s, Head(entries), sink),
                              s, Tail(entries), sink)

_maybe_log_user_prompt(w, s, contents, sink) ==
    IF contents.kind = "list"
    THEN LogUserPromptEntries(w, s, contents.items, sink)
    ELSE _maybe_log_single_user_prompt(w, s, contents, sink)

process_request(w, s, contents, config, sink) ==
    Then(Then(SetRequestAttributes(Log(w, s, "process_request"), s, config,
                                   _SPAN_ATTRIBUTE_TO_CONFIG_EXTRACTOR, sink),
              s, LAMBDA w1 : _maybe_log_system_instruction(w1, s, config, sink)),
         s, LAMBDA w2 : _maybe_log_user_prompt(w2, s, contents, sink))

\* a slip: "=" where the code has "+=", each response overwrites the totals
OverwriteTokenCounts(w, s, response) ==
    LET input_tokens == _get_response_property(
            response, <<"usage_metadata", ".", "prompt_token_count">>)
        output_tokens == _get_response_property(
            response, <<"usage_metadata", ".", "candidates_token_count">>)
    IN  [w EXCEPT
            !.calls[s]._input_tokens =
                IF Truthy(input_tokens) /\ IsInstanceInt(input_tokens)
                THEN IntValue(input_tokens) ELSE @,
            !.calls[s]._output_tokens =
                IF Truthy(output_tokens) /\ IsInstanceInt(output_tokens)
                THEN IntValue(output_tokens) ELSE @]

_maybe_update_token_counts(w, s, response) ==
    LET input_tokens == _get_response_property(
            response, <<"usage_metadata", ".", "prompt_token_count">>)
        output_tokens == _get_response_property(
            response, <<"usage_metadata", ".", "candidates_token_count">>)
    IN  IF IsRaise(input_tokens) THEN RaiseIn(w, s, input_tokens.exc)
        ELSE IF IsRaise(output_tokens) THEN RaiseIn(w, s, output_tokens.exc)
        ELSE [w EXCEPT
                !.calls[s]._input_tokens =
                    IF Truthy(input_tokens) /\ IsInstanceInt(input_tokens)
                    THEN @ + IntValue(input_tokens) ELSE @,
                !.calls[s]._output_tokens =
                    IF Truthy(output_tokens) /\ IsInstanceInt(output_tokens)
                    THEN @ + IntValue(output_tokens) ELSE @]

\* f"BLOCKED_{block_reason}" for block_reason = name.upper()
BlockedErrorType(name) ==
    CASE name = "SAFETY" -> PyStr("BLOCKED_SAFETY")
      [] name = "OTHER" -> PyStr("BLOCKED_OTHER")
      [] name = "BLOCKED_REASON_UNSPECIFIED" -> PyStr("BLOCKED_BLOCKED_REASON_UNSPECIFIED")

\* a slip: a response with candidates clears the classification
UpdateErrorTypeClearing(w, s, response) ==
    LET prompt_feedback == response.fields["prompt_feedback"]
    IN  IF Truthy(response.fields["candidates"])
        THEN [w EXCEPT !.calls[s]._error_type = None]
        ELSE IF \/ ~Truthy(prompt_feedback)
                \/ ~Truthy(prompt_feedback.fields["block_reason"])
                \/ prompt_feedback.fields["block_reason"] = PyEnum("BLOCKED_REASON_UNSPECIFIED")
        THEN [w EXCEPT !.calls[s]._error_type = PyStr("NO_CANDIDATES")]
        ELSE [w EXCEPT !.calls[s]._error_type =
                  BlockedErrorType(prompt_feedback.fields["block_reason"].name)]

\* a slip: the comparison with BLOCKED_REASON_UNSPECIFIED is left out
UpdateErrorTypeWithoutDefault(w, s, response) ==
    LET prompt_feedback == response.fields["prompt_feedback"]
    IN  IF Truthy(response.fields["candidates"]) THEN w
        ELSE IF \/ ~Truthy(prompt_feedback)
                \/ ~Truthy(prompt_feedback.fields["block_reason"])
        THEN [w EXCEPT !.calls[s]._error_type = PyStr("NO_CANDIDATES")]
        ELSE [w EXCEPT !.calls[s]._error_type =
                  BlockedErrorType(prompt_feedback.fields["block_reason"].name)]

_maybe_update_error_type(w, s, response) ==
    LET prompt_feedback == response.fields["prompt_feedback"]
    IN  IF Truthy(response.fields["candidates"]) THEN w
        ELSE IF \/ ~Truthy(prompt_feedback)
                \/ ~Truthy(prompt_feedback.fields["block_reason"])
                \/ prompt_feedback.fields["block_reason"] = PyEnum("BLOCKED_REASON_UNSPECIFIED")
        THEN [w EXCEPT !.calls[s]._error_type = PyStr("NO_CANDIDATES")]
        ELSE [w EXCEPT !.calls[s]._error_type =
                  BlockedErrorType(prompt_feedback.fields["block_reason"].name)]

_maybe_log_response_candidate(w, s, candidate, flat_candidate_index, sink) ==
    LET body0 == [index |-> PyInt(flat_candidate_index)]
        body1 == IF w.calls[s]._content_recording_enabled
                 THEN IF Truthy(candidate.fields["content"])
                      THEN LET content == _to_dict(candidate.fields["content"])
                           IN  ("content" :> content) @@ body0
                      ELSE body0
                 ELSE ("content" :> _CONTENT_ELIDED) @@ body0
        body2 == IF candidate.fields["finish_reason"] # None
                 THEN ("finish_reason" :> PyStr(candidate.fields["finish_reason"].name)) @@ body1
                 ELSE body1
    IN  IF "content" \in DOMAIN body1 /\ IsRaise(body1["content"])
        THEN RaiseIn(w, s, body1["content"].exc)
        ELSE EmitEvent(w, s, "log_response_content", body2, sink)

\* the loop of _maybe_log_response over response.candidates
RECURSIVE LogResponseCandidates(_, _, _, _)
LogResponseCandidates(w, s, candidates, sink) ==
    IF candidates = <<>> THEN w
    ELSE LET w1 == _maybe_log_response_candidate(
                       w, s, Head(candidates), w.calls[s]._candidate_index, sink)
         IN  IF Failed(w1, s) THEN w1
             ELSE LogResponseCandidates(
                      [w1 EXCEPT !.calls[s]._candidate_index = @ + 1],
                      s, Tail(candidates), sink)

\* a slip: the index logged is the candidate's index in its own response
LogResponseIndexPerResponse(w, s, response, sink) ==
    IF ~Truthy(response.fields["candidates"]) THEN w
    ELSE LogResponseCandidates([w EXCEPT !.calls[s]._candidate_index = 0],
                               s, response.fields["candidates"].items, sink)

_maybe_log_response(w, s, response, sink) ==
    IF ~Truthy(response.fields["candidates"]) THEN w
    ELSE LogResponseCandidates(w, s, response.fields["candidates"].items, sink)

process_response(w, s, response, sink) ==
    Then(Then(Then(_maybe_update_token_counts(
                       Log([w EXCEPT !.calls[s].processed = Append(@, response)],
                           s, "process_response"),
                       s, response),
                   s, LAMBDA w1 : _maybe_update_error_type(w1, s, response)),
              s, LAMBDA w2 : _maybe_log_response(w2, s, response, sink)),
         s, LAMBDA w3 : [w3 EXCEPT !.calls[s]._response_index = @ + 1])

\* str(e.__class__.__name__)
process_error(w, s, e) ==
    Log([w EXCEPT !.calls[s]._error_type = PyStr(e)], s, "process_error")

\* sorted(): the finish reason names in ascending order
SortedNames == <<"FINISH_REASON_UNSPECIFIED", "MAX_TOKENS", "SAFETY", "STOP">>

Sorted(names) == SelectSeq(SortedNames, LAMBDA n : n \in names)

_record_token_usage_metric(w, s, sink) ==
    IF sink = "token_usage_metric" THEN RaiseIn(w, s, "SinkError")
    ELSE [w EXCEPT !.calls[s].token_usage =
            @ \o << [value |-> w.calls[s]._input_tokens,
                     gen_ai_token_type |-> "input",
                     gen_ai_system |-> w.calls[s]._genai_system,
                     gen_ai_request_model |-> w.calls[s]._genai_request_model,
                     gen_ai_operation_name |-> _GENERATE_CONTENT_OP_NAME],
                    [value |-> w.calls[s]._output_tokens,
                     gen_ai_token_type |-> "output",
                     gen_ai_system |-> w.calls[s]._genai_system,
                     gen_ai_request_model |-> w.calls[s]._genai_request_model,
                     gen_ai_operation_name |-> _GENERATE_CONTENT_OP_NAME] >>]

\* the duration value itself (a clock difference) is not modelled
_record_duration_metric(w, s, sink) ==
    IF sink = "operation_duration_metric" THEN RaiseIn(w, s, "SinkError")
    ELSE LET attributes == [gen_ai_system |-> w.calls[s]._genai_system,
                            gen_ai_request_model |-> w.calls[s]._genai_request_model,
                            gen_ai_operation_name |-> _GENERATE_CONTENT_OP_NAME]
         IN  [w EXCEPT !.calls[s].duration =
                Append(@, IF w.calls[s]._error_type # None
                          THEN ("error_type" :> w.calls[s]._error_type) @@ attributes
                          ELSE attributes)]

\* the three set_attribute calls of finalize_processing, on the current span
SetFinalAttributes(w, s) ==
    LET span == w.current
        input_tokens == PyInt(w.calls[s]._input_tokens)
        output_tokens == PyInt(w.calls[s]._output_tokens)
        finish_reasons == PyList(Sorted(w.calls[s]._finish_reasons_set))
        w1 == SpanSetAttribute(w, span, "gen_ai.usage.input_tokens", input_tokens)
        w2 == SpanSetAttribute(w1, span, "gen_ai.usage.output_tokens", output_tokens)
        w3 == SpanSetAttribute(w2, span, "gen_ai.response.finish_reasons", finish_reasons)
    IN  [w3 EXCEPT !.calls[s].final_attrs =
            Append(@, [span |-> span,
                       input_tokens |-> input_tokens,
                       output_tokens |-> output_tokens,
                       finish_reasons |-> finish_reasons])]

\* finalize_processing; an exception in flight (exc) is replaced by the one
\* finalize raises, as a finally block does
finalize_processing(w, s, sink) ==
    CASE sink = "set_attribute" -> RaiseIn(Log(w, s, "finalize"), s, "SinkError")
      [] sink = "token_usage_metric" ->
            _record_token_usage_metric(SetFinalAttributes(Log(w, s, "finalize"), s), s, sink)
      [] OTHER ->
            _record_duration_metric(
                _record_token_usage_metric(SetFinalAttributes(Log(w, s, "finalize"), s),
                                           s, sink),
                s, sink)

(***************************************************************************)
(* Tool wrapping.                                                          *)
(***************************************************************************)
\* the names bound in the module's namespace by its imports (lines 15-47):
\* "from .flags import is_content_recording_enabled" binds the function,
\* not a name "flags"
ModuleGlobals ==
    {"copy", "functools", "inspect", "json", "logging", "os", "time",
     "AsyncModels", "Models", "trace", "code_attributes", "gen_ai_attributes",
     "error_attributes", "is_content_recording_enabled", "OTelWrapper"}

\* callable(tool)
Callable(tool) == tool.kind = "function"

_wrapped_tool(tool) ==
    IF ~Callable(tool) THEN tool
    ELSE IF tool.coroutine THEN tool
    ELSE IF "flags" \notin ModuleGlobals THEN Raise("NameError")
    ELSE [kind |-> "function", name |-> tool.name, coroutine |-> FALSE, wraps |-> tool]

\* the list comprehension of _wrapped_config_with_tools
RECURSIVE WrappedTools(_)
WrappedTools(tools) ==
    IF tools = <<>> THEN PyList(<<>>)
    ELSE LET first == _wrapped_tool(Head(tools))
         IN  IF IsRaise(first) THEN first
             ELSE LET rest == WrappedTools(Tail(tools))
                  IN  IF IsRaise(rest) THEN rest
                      ELSE PyList(<<first>> \o rest.items)

\* copy.copy(config): a new object with the fields of config
copy_copy(config) == config

\* a slip: no copy is made, result is the object named config
WrappedConfigWithToolsInPlace(config, lib) ==
    LET wrapped == WrappedTools(config.fields["tools"].items)
    IN  IF IsRaise(wrapped) THEN [returned |-> wrapped, config |-> config]
        ELSE IF lib.forbids_extra THEN [returned |-> Raise("ValueError"), config |-> config]
        ELSE [returned |-> PyObj(("tool" :> wrapped) @@ config.fields),
              config |-> PyObj(("tool" :> wrapped) @@ config.fields)]

\* copy.copy(config), then the assignment to result.tool: what is returned
\* (or raised), and the object named config afterwards.
\* lib.forbids_extra: the configuration class rejects the assignment of an
\* attribute that is not one of its fields (it raises ValueError)
_wrapped_config_with_tools(config, lib) ==
    LET result == copy_copy(config)
        wrapped == WrappedTools(config.fields["tools"].items)
    IN  IF IsRaise(wrapped) THEN [returned |-> wrapped, config |-> config]
        ELSE IF lib.forbids_extra THEN [returned |-> Raise("ValueError"), config |-> config]
        ELSE [returned |-> PyObj(("tool" :> wrapped) @@ result.fields), config |-> config]

\* the fields of GenerateContentConfig that the module reads
DefaultConfigFields ==
    [temperature |-> None, top_k |-> None, top_p |-> None,
     system_instruction |-> None, tools |-> None]

\* GenerateContentConfig(config), the mapping given as the one positional
\* argument: lib.positional_mapping says whether the class accepts that
GenerateContentConfig(config, lib) ==
    IF lib.positional_mapping THEN PyObj(config.fields @@ DefaultConfigFields)
    ELSE Raise("TypeError")

\* the caller's object is the one _wrapped_config_with_tools works on,
\* unless it is a mapping, from which a new object was constructed
CallerConfigAfter(config, wrapped) == IF config.kind = "dict" THEN config ELSE wrapped.config

\* what is returned (or raised), and the caller's object named config
\* afterwards
_wrapped_config(config, lib) ==
    IF config = None THEN [returned |-> None, config |-> config]
    ELSE LET converted == IF config.kind = "dict"
                          THEN GenerateContentConfig(config, lib)
                          ELSE config
         IN  IF IsRaise(converted) THEN [returned |-> converted, config |-> config]
             ELSE IF ~HasAttr(converted, "tools")
             THEN [returned |-> Raise("AttributeError"), config |-> config]
             ELSE IF ~Truthy(converted.fields["tools"])
             THEN [returned |-> converted, config |-> config]
             ELSE [returned |-> _wrapped_config_with_tools(converted, lib).returned,
                   config |-> CallerConfigAfter(
                                  config, _wrapped_config_with_tools(converted, lib))]

(***************************************************************************)
(* Pieces shared by the four adapters.                                     *)
(***************************************************************************)
\* a call begins in slot s: the slot's previous call and span are forgotten
BeginCall(w, s, shape) ==
    [w EXCEPT !.calls[s] = [IdleCall EXCEPT !.shape = shape, !.pc = "running"],
              !.spans[s] = NoSpan]

\* exit of "with start_span_as_current_span(...)" / "with trace.use_span(...)":
\* the context is detached, then the span is ended if end_on_exit
WithExit(w, s, token, end_on_exit) ==
    LET w1 == Detach(w, token)
    IN  IF end_on_exit THEN EndSpan(w1, s) ELSE w1

\* wrapped_func(self, model=model, contents=contents,
\*              config=_wrapped_config(otel_wrapper, config), **kwargs):
\* the arguments are evaluated, then the original entry point is invoked
InvokeOriginal(w, s, config, lib) ==
    LET wrapped == _wrapped_config(config, lib)
        w1 == [w EXCEPT !.calls[s].caller[1].config = wrapped.config]
    IN  IF IsRaise(wrapped.returned) THEN RaiseIn(w1, s, wrapped.returned.exc)
        ELSE Log([w1 EXCEPT !.calls[s].passed_config = <<wrapped.returned>>], s, "invoke")

\* the original entry point returns (or the original stream yields) response
OriginalProduces(w, s, response) ==
    Log([w EXCEPT !.calls[s].produced = Append(@, response)], s, "original_produced")

\* the original entry point (or the original stream) raises exc
OriginalRaises(w, s, exc) ==
    Log([w EXCEPT !.calls[s].orig_raised = exc, !.calls[s].exc = exc], s, "original_raised")

\* the original stream ends
OriginalExhausted(w, s) ==
    Log([w EXCEPT !.calls[s].exhausted = TRUE], s, "original_exhausted")

\* a slip: finalize_processing in the except clause instead of a finally
ExceptOnly(w, s, sink) ==
    IF IsException(w.calls[s].exc)
    THEN finalize_processing(process_error(w, s, w.calls[s].exc), s, sink)
    ELSE w

\* "except Exception as error: helper.process_error(error); raise" and
\* "finally: helper.finalize_processing()"
ExceptFinally(w, s, sink) ==
    finalize_processing(IF IsException(w.calls[s].exc)
                        THEN process_error(w, s, w.calls[s].exc)
                        ELSE w,
                        s, sink)

\* the response is handed to the caller (return response / yield response)
Deliver(w, s, response) ==
    Log([w EXCEPT !.calls[s].delivered = Append(@, response)], s, "deliver")

\* the adapter call ends: the caller receives the exception in flight, if any
Finish(w, s, normal_result) ==
    LET error == w.calls[s].exc
    IN  [w EXCEPT !.calls[s].pc = "done",
                  !.calls[s].result = IF error = "none" THEN normal_result ELSE "raised",
                  !.calls[s].raised = error,
                  !.calls[s].exc = "none"]

\* the body of the try statement of the non-streaming adapters once the
\* original entry point has come back with outcome
AfterOriginal(w, s, outcome, sink) ==
    Then(ExceptFinally(IF outcome.kind = "raise"
                       THEN OriginalRaises(w, s, outcome.exc)
                       ELSE process_response(OriginalProduces(w, s, outcome.response),
                                             s, outcome.response, sink),
                       s, sink),
         s, LAMBDA w2 : Deliver(w2, s, outcome.response))

\* helper construction, span start and process_request of an adapter; the
\* token of the with block is kept in the call
KeepToken(w, s) == [w EXCEPT !.calls[s].token = w.current]

\* the objects the call was made with: the client instance, the process
\* environment, and what the caller passed as config and contents
CallerObjects(w, s, self, environ, contents, config) ==
    LET objects == [self |-> self, environ |-> environ,
                    config |-> config, contents |-> contents]
    IN  [w EXCEPT !.calls[s].given = <<objects>>, !.calls[s].caller = <<objects>>]

EnterAdapter(w, s, function_name, self, environ, recording, contents, config, sink) ==
    process_request(
        start_span_as_current_span(
            KeepToken(NewHelper(CallerObjects(w, s, self, environ, contents, config),
                                s, self, environ, ModelName, recording), s),
            s, function_name),
        s, contents, config, sink)

\* the try statement of an adapter, entered unless process_request raised:
\* a fault in the evaluation of the arguments of the original is handled by
\* except/finally like one the original raises
TryStatement(w, s, Body(_), sink) ==
    IF Failed(w, s) THEN ExceptFinally(w, s, sink) ELSE Body(w)

\* the with block of the adapter is left
ExitAdapter(w, s, end_on_exit) == WithExit(w, s, w.calls[s].token, end_on_exit)

Commit(w) ==
    /\ calls' = w.calls
    /\ spans' = w.spans
    /\ current' = w.current

(***************************************************************************)
(* Generators: the sync stream adapter is a generator function, the async  *)
(* stream adapter returns a provider whose __aiter__ starts a generator.   *)
(***************************************************************************)
FreshGen == [pc |-> "fresh", token |-> 0, result |-> "none", raised |-> "none"]

\* generator g ends: the consumer receives the exception in flight, or the
\* end of the iteration; close() absorbs the GeneratorExit it threw
GenFinish(w, s, g) ==
    LET error == w.calls[s].exc
    IN  [w EXCEPT !.calls[s].gens[g].pc = "finished",
                  !.calls[s].gens[g].result =
                      CASE error = "none" -> "stopped"
                        [] error = "GeneratorExit" -> "closed"
                        [] OTHER -> "raised",
                  !.calls[s].gens[g].raised =
                      IF error = "GeneratorExit" THEN "none" ELSE error,
                  !.calls[s].exc = "none"]

\* the with block of generator g is left, the span is ended, the generator ends
GenExit(w, s, g) == GenFinish(WithExit(w, s, w.calls[s].gens[g].token, TRUE), s, g)

\* one step of "for response in <original stream>: process_response; yield"
\* inside try / except Exception / finally, with outcome what the original
\* stream does when asked for its next element
YieldResponse(w, s, g, response, sink) ==
    IF Failed(w, s) THEN GenExit(ExceptFinally(w, s, sink), s, g)
    ELSE [Deliver(w, s, response) EXCEPT !.calls[s].gens[g].pc = "yielded"]

\* a slip: the chunk is yielded without process_response
StreamStepUnprocessed(w, s, g, outcome, sink) ==
    CASE outcome.kind = "yield" ->
            YieldResponse(OriginalProduces(w, s, outcome.response),
                          s, g, outcome.response, sink)
      [] outcome.kind = "exhausted" ->
            GenExit(ExceptFinally(OriginalExhausted(w, s), s, sink), s, g)
      [] outcome.kind = "raise" ->
            GenExit(ExceptFinally(OriginalRaises(w, s, outcome.exc), s, sink), s, g)

StreamStep(w, s, g, outcome, sink) ==
    CASE outcome.kind = "yield" ->
            YieldResponse(process_response(OriginalProduces(w, s, outcome.response),
                                           s, outcome.response, sink),
                          s, g, outcome.response, sink)
      [] outcome.kind = "exhausted" ->
            GenExit(ExceptFinally(OriginalExhausted(w, s), s, sink), s, g)
      [] outcome.kind = "raise" ->
            GenExit(ExceptFinally(OriginalRaises(w, s, outcome.exc), s, sink), s, g)

\* GeneratorExit is thrown into generator g, suspended at its yield
ThrowGeneratorExit(w, s, g, sink) ==
    GenExit(ExceptFinally(RaiseIn(Log(w, s, "close"), s, "GeneratorExit"), s, sink), s, g)

\* the sync stream call is over when its generator has ended
SettleSyncStream(w, s) ==
    IF w.calls[s].gens[1].pc # "finished" THEN w
    ELSE [w EXCEPT !.calls[s].pc = "done",
                   !.calls[s].result = w.calls[s].gens[1].result,
                   !.calls[s].raised = w.calls[s].gens[1].raised]

(***************************************************************************)
(* Inputs: requests, responses, what the original entry points do.         *)
(***************************************************************************)
SyncTool == PyFunction("get_weather", FALSE)
CoroTool == PyFunction("fetch", TRUE)
\* a tool given as a schema descriptor
DataTool == PyObj([function_declarations |-> None])
TextPart == PyObj([text |-> PyStr("hi")])
\* a content unit that is neither a mapping, a model nor JSON (an image)
Image == [kind |-> "image"]

ConfigObject(fields) == PyObj(fields @@ DefaultConfigFields)

ClientVertex == PyObj([vertexai |-> PyBool(TRUE)])
ClientLegacy == PyObj([_api_client |-> PyObj([vertexai |-> PyBool(FALSE)])])
ClientOpaque == PyObj([_api_client |-> None])
EmptyEnviron == <<>>
VertexEnviron == [GOOGLE_GENAI_USE_VERTEXAI |-> "True"]

\* the class of the configuration as the client library defines it
StrictLibrary == [forbids_extra |-> TRUE, positional_mapping |-> FALSE]
\* a configuration class that takes a mapping and any attribute
LenientLibrary == [forbids_extra |-> FALSE, positional_mapping |-> TRUE]

Request(self, environ, recording, contents, config, lib) ==
    [self |-> self, environ |-> environ, recording |-> recording,
     contents |-> contents, config |-> config, lib |-> lib]

PlainRequest ==
    Request(ClientVertex, EmptyEnviron, TRUE, PyStr("hello"), None, StrictLibrary)
ElidedRequest ==
    Request(ClientOpaque, VertexEnviron, FALSE,
            PyList(<<PyStr("a"), PyStr("b")>>), None, StrictLibrary)

Requests ==
    { PlainRequest,
      ElidedRequest,
      Request(ClientLegacy, VertexEnviron, TRUE, PyStr("hello"),
              PyDict([temperature |-> PyInt(1)]), StrictLibrary),
      Request(ClientOpaque, EmptyEnviron, FALSE, PyStr("hello"),
              PyDict([temperature |-> PyInt(1), system_instruction |-> PyStr("be brief")]),
              LenientLibrary),
      Request(ClientVertex, EmptyEnviron, TRUE, PyList(<<Image>>),
              ConfigObject(<<>>), StrictLibrary),
      Request(ClientVertex, EmptyEnviron, FALSE, PyList(<<Image>>),
              ConfigObject(<<>>), StrictLibrary),
      Request(ClientLegacy, EmptyEnviron, TRUE, PyStr("hello"),
              ConfigObject([temperature |-> PyInt(1), top_p |-> PyInt(1),
                            system_instruction |-> TextPart]), StrictLibrary),
      Request(ClientVertex, EmptyEnviron, TRUE, PyStr("hello"),
              ConfigObject([system_instruction |-> PyList(<<TextPart>>)]), StrictLibrary),
      Request(ClientVertex, EmptyEnviron, FALSE, PyStr("hello"),
              ConfigObject([tools |-> PyList(<<SyncTool>>)]), StrictLibrary),
      Request(ClientVertex, EmptyEnviron, FALSE, PyStr("hello"),
              ConfigObject([tools |-> PyList(<<CoroTool, DataTool>>)]), StrictLibrary),
      Request(ClientVertex, EmptyEnviron, FALSE, PyStr("hello"),
              ConfigObject([tools |-> PyList(<<CoroTool, DataTool>>)]), LenientLibrary),
      Request(ClientVertex, EmptyEnviron, TRUE, PyStr("hello"),
              PyDict([tools |-> PyList(<<DataTool, SyncTool>>)]), LenientLibrary),
      Request(ClientVertex, EmptyEnviron, TRUE, PyStr("hello"),
              PyObj([temperature |-> None]), StrictLibrary) }

\* the requests of the specification that varies the responses
PlainRequests == {PlainRequest, ElidedRequest}

\* client instances: the vertexai attribute set, unset (None) or missing,
\* with and without the legacy _api_client, whose own flag is set, unset or
\* missing
Clients ==
    { ClientVertex, ClientLegacy, ClientOpaque,
      PyObj([vertexai |-> PyBool(FALSE)]),
      PyObj([vertexai |-> None]),
      PyObj(<<>>),
      PyObj([vertexai |-> PyBool(FALSE), _api_client |-> PyObj([vertexai |-> PyBool(TRUE)])]),
      PyObj([vertexai |-> None, _api_client |-> PyObj([vertexai |-> PyBool(TRUE)])]),
      PyObj([vertexai |-> None, _api_client |-> PyObj([vertexai |-> PyBool(FALSE)])]),
      PyObj([_api_client |-> PyObj([vertexai |-> None])]),
      PyObj([_api_client |-> PyObj(<<>>)]) }

\* process environments: the toggle unset, or set to one of these strings
Environs ==
    {EmptyEnviron} \cup
    {[GOOGLE_GENAI_USE_VERTEXAI |-> v] :
        v \in {"true", "True", "TRUE", "tRuE", "1", "0", "false", "False", "YES", ""}}

\* the requests of the specification that varies the client and the environment
SystemRequests ==
    {Request(self, environ, TRUE, PyStr("hello"), None, StrictLibrary) :
        self \in Clients, environ \in Environs}

Candidate(content, finish_reason) ==
    PyObj([content |-> content, finish_reason |-> finish_reason])
PromptFeedback(block_reason) == PyObj([block_reason |-> block_reason])
UsageMetadata(prompt_token_count, candidates_token_count) ==
    PyObj([prompt_token_count |-> prompt_token_count,
           candidates_token_count |-> candidates_token_count])
GenerateContentResponse(candidates, prompt_feedback, usage_metadata) ==
    PyObj([candidates |-> candidates, prompt_feedback |-> prompt_feedback,
           usage_metadata |-> usage_metadata])

\* two candidates that both finish with STOP, usage 1 and 2
TwoCandidates ==
    GenerateContentResponse(
        PyList(<<Candidate(TextPart, PyEnum("STOP")), Candidate(TextPart, PyEnum("STOP"))>>),
        None, UsageMetadata(PyInt(1), PyInt(2)))
\* no candidates, an unspecified block reason, no usage
NoCandidates ==
    GenerateContentResponse(PyList(<<>>),
                            PromptFeedback(PyEnum("BLOCKED_REASON_UNSPECIFIED")), None)

Responses ==
    { TwoCandidates,
      NoCandidates,
      GenerateContentResponse(
          PyList(<<Candidate(TextPart, PyEnum("MAX_TOKENS"))>>), None, None),
      GenerateContentResponse(
          PyList(<<Candidate(None, None)>>), None, UsageMetadata(None, PyBool(TRUE))),
      GenerateContentResponse(None, None, UsageMetadata(PyStr("7"), PyInt(-1))),
      GenerateContentResponse(PyList(<<>>), PromptFeedback(None),
                              UsageMetadata(PyInt(0), PyInt(1))),
      GenerateContentResponse(PyList(<<>>), PromptFeedback(PyEnum("SAFETY")),
                              UsageMetadata(PyInt(2), None)),
      GenerateContentResponse(PyList(<<Candidate(TextPart, PyEnum("STOP"))>>),
                              PromptFeedback(PyEnum("OTHER")),
                              UsageMetadata(PyInt(1), PyInt(1))) }

\* the responses of the specification that varies the requests
PlainResponses == {TwoCandidates, NoCandidates}

\* an ordinary error of the client library, and the exceptions that do not
\* derive from Exception: an interrupt of a blocking call, the cancellation
\* of a task that is awaiting
SyncFaults == {"APIError", "KeyboardInterrupt"}
AsyncFaults == {"APIError", "CancelledError"}

Returns(response) == [kind |-> "return", response |-> response]
Yields(response) == [kind |-> "yield", response |-> response]
Raises(exc) == [kind |-> "raise", exc |-> exc]
Exhausted == [kind |-> "exhausted"]

\* what the original stream of call c can do when asked for its next element
StreamOutcomes(c, faults) ==
    IF c.exhausted \/ c.orig_raised # "none" THEN {Exhausted}
    ELSE {Exhausted} \cup {Raises(e) : e \in faults}
         \cup (IF Len(c.produced) < MaxChunks THEN {Yields(r) : r \in Responses} ELSE {})

(***************************************************************************)
(* Interception: snapshot, install, restore.                               *)
(***************************************************************************)
Original(name) == [kind |-> "original", name |-> name]

\* _MethodsSnapshot.__init__: the four entry points as bound now
_MethodsSnapshot(M, A) ==
    [_original_generate_content |-> M.generate_content,
     _original_generate_content_stream |-> M.generate_content_stream,
     _original_async_generate_content |-> A.generate_content,
     _original_async_generate_content_stream |-> A.generate_content_stream]

\* a slip: the streaming entry point restored from the non-streaming field
RestoreCopyPasted(snapshot) ==
    [Models |-> [generate_content |-> snapshot._original_generate_content,
                 generate_content_stream |-> snapshot._original_generate_content],
     AsyncModels |-> [generate_content |-> snapshot._original_async_generate_content,
                      generate_content_stream |->
                          snapshot._original_async_generate_content_stream]]

\* _MethodsSnapshot.restore: the bindings it leaves
restore(snapshot) ==
    [Models |-> [generate_content |-> snapshot._original_generate_content,
                 generate_content_stream |-> snapshot._original_generate_content_stream],
     AsyncModels |-> [generate_content |-> snapshot._original_async_generate_content,
                      generate_content_stream |->
                          snapshot._original_async_generate_content_stream]]

\* the function object an install creates around wrapped_func; install
\* tells the objects of different installs apart
Instrumented(adapter, wrapped_func, install) ==
    [kind |-> "instrumented", adapter |-> adapter,
     wrapped_func |-> wrapped_func, install |-> install]

_create_instrumented_generate_content(snapshot, install) ==
    Instrumented("generate_content", snapshot._original_generate_content, install)
_create_instrumented_generate_content_stream(snapshot, install) ==
    Instrumented("generate_content_stream", snapshot._original_generate_content_stream, install)
_create_instrumented_async_generate_content(snapshot, install) ==
    Instrumented("async_generate_content", snapshot._original_async_generate_content, install)
_create_instrumented_async_generate_content_stream(snapshot, install) ==
    Instrumented("async_generate_content_stream",
                 snapshot._original_async_generate_content_stream, install)

\* an adapter that wraps an original entry point is bound at entry
Installed(entry) == entry.kind = "instrumented" /\ entry.wrapped_func.kind = "original"

\* the thread (the task) that makes the calls is running: none of its calls
\* is suspended at an await
Running == \A s \in Slots : calls[s].pc # "awaiting"

\* slot s is free for a new call
Free(s) == Running /\ calls[s].pc = "idle"

UnchangedCalls == UNCHANGED <<calls, spans, current>>
UnchangedEntryPoints ==
    UNCHANGED <<Models, AsyncModels, snapshots, bound_before, uninstall_raised,
                uninstalled>>

instrument_generate_content ==
    /\ Len(snapshots) < MaxInstalls
    /\ LET snapshot == _MethodsSnapshot(Models, AsyncModels)
           install == Len(snapshots) + 1
       IN  /\ snapshots' = Append(snapshots, snapshot)
           /\ bound_before' = Append(bound_before,
                                     [Models |-> Models, AsyncModels |-> AsyncModels])
           /\ Models' =
                [generate_content |->
                     _create_instrumented_generate_content(snapshot, install),
                 generate_content_stream |->
                     _create_instrumented_generate_content_stream(snapshot, install)]
           /\ AsyncModels' =
                [generate_content |->
                     _create_instrumented_async_generate_content(snapshot, install),
                 generate_content_stream |->
                     _create_instrumented_async_generate_content_stream(snapshot, install)]
    /\ UNCHANGED <<uninstall_raised, uninstalled>>
    /\ UnchangedCalls

\* the object that install number h returned
SnapshotObject(h) == [kind |-> "_MethodsSnapshot", handle |-> h]

\* isinstance(snapshot, _MethodsSnapshot)
IsMethodsSnapshot(snapshot) == snapshot.kind = "_MethodsSnapshot"

\* what a caller can hand to uninstrument_generate_content: the object of
\* an install, or a value that is no snapshot
UninstallArguments == {SnapshotObject(h) : h \in 1..MaxInstalls} \cup {None}

\* uninstrument_generate_content: the assert, then snapshot.restore()
uninstrument_generate_content(snapshot) ==
    /\ snapshot \in UninstallArguments
    /\ IsMethodsSnapshot(snapshot) => snapshot.handle \in 1..Len(snapshots)
    /\ IF IsMethodsSnapshot(snapshot)
       THEN /\ Models' = restore(snapshots[snapshot.handle]).Models
            /\ AsyncModels' = restore(snapshots[snapshot.handle]).AsyncModels
            /\ uninstall_raised' = "none"
            /\ uninstalled' =
                   IF uninstalled.kept
                   THEN [uninstalled EXCEPT
                            !.times[snapshot.handle] = IF @ = 0 THEN 1 ELSE 2]
                   ELSE uninstalled
       ELSE /\ UNCHANGED <<Models, AsyncModels, uninstalled>>
            /\ uninstall_raised' = "AssertionError"
    /\ UNCHANGED <<snapshots, bound_before>>
    /\ UnchangedCalls

(***************************************************************************)
(* The four adapters.                                                      *)
(***************************************************************************)
\* sync call: the whole of instrumented_generate_content
instrumented_generate_content(s, req, outcome, sink) ==
    /\ Free(s)
    /\ Installed(Models.generate_content)
    /\ Commit(Finish(ExitAdapter(
            Then(EnterAdapter(BeginCall(World, s, "sync"), s,
                              "google.genai.Models.generate_content",
                              req.self, req.environ, req.recording,
                              req.contents, req.config, sink),
                 s, LAMBDA w1 :
                        TryStatement(InvokeOriginal(w1, s, req.config, req.lib), s,
                                     LAMBDA w2 : AfterOriginal(w2, s, outcome, sink),
                                     sink)),
            s, TRUE), s, "returned"))
    /\ UnchangedEntryPoints

\* an adapter that runs up to the invocation of the original when called
StreamStartedEagerly(s, req) ==
    /\ Free(s)
    /\ Installed(Models.generate_content_stream)
    /\ Commit([EnterAdapter(BeginCall(World, s, "sync_stream"), s,
                            "google.genai.Models.generate_content_stream",
                            req.self, req.environ, req.recording,
                            req.contents, req.config, "none") EXCEPT
                   !.calls[s].pc = "provided",
                   !.calls[s].args = <<req>>,
                   !.calls[s].gens = <<FreshGen>>])
    /\ UnchangedEntryPoints

\* sync stream: calling the generator function runs none of its body
instrumented_generate_content_stream(s, req) ==
    /\ Free(s)
    /\ Installed(Models.generate_content_stream)
    /\ Commit([BeginCall(World, s, "sync_stream") EXCEPT
                   !.calls[s].pc = "provided",
                   !.calls[s].args = <<req>>,
                   !.calls[s].gens = <<FreshGen>>])
    /\ UnchangedEntryPoints

\* the body of the sync stream generator after process_request, up to its
\* first yield or its end
StartStream(w, s, outcome, sink) ==
    IF Failed(w, s) THEN GenExit(ExceptFinally(w, s, sink), s, 1)
    ELSE StreamStep(w, s, 1, outcome, sink)

StartGenerator(w, s, req, outcome, sink) ==
    IF Failed(w, s) THEN GenExit(w, s, 1)
    ELSE StartStream(InvokeOriginal(w, s, req.config, req.lib), s, outcome, sink)

\* next() on the generator of a sync stream call
GeneratorNext(s, outcome, sink) ==
    /\ Running
    /\ calls[s].shape = "sync_stream"
    /\ calls[s].pc = "provided"
    /\ outcome \in StreamOutcomes(calls[s], SyncFaults)
    /\ IF calls[s].gens[1].pc = "fresh"
       THEN LET req == calls[s].args[1]
            IN  Commit(SettleSyncStream(
                    StartGenerator(
                        EnterAdapter([World EXCEPT !.calls[s].args = <<>>,
                                                   !.calls[s].gens[1].token = current],
                                     s, "google.genai.Models.generate_content_stream",
                                     req.self, req.environ, req.recording,
                                     req.contents, req.config, sink),
                        s, req, outcome, sink),
                    s))
       ELSE /\ calls[s].gens[1].pc = "yielded"
            /\ Commit(SettleSyncStream(StreamStep(World, s, 1, outcome, sink), s))
    /\ UnchangedEntryPoints

\* close() on the generator of a sync stream call, or its collection when
\* the consumer abandons it: a suspended generator gets GeneratorExit, one
\* that never started just ends
GeneratorClose(s, sink) ==
    /\ Running
    /\ calls[s].shape = "sync_stream"
    /\ calls[s].pc = "provided"
    /\ IF calls[s].gens[1].pc = "yielded"
       THEN Commit(SettleSyncStream(ThrowGeneratorExit(World, s, 1, sink), s))
       ELSE Commit(SettleSyncStream(
                [World EXCEPT !.calls[s].gens[1].pc = "finished",
                              !.calls[s].gens[1].result = "closed",
                              !.calls[s].args = <<>>], s))
    /\ UnchangedEntryPoints

\* the coroutine is suspended at its await, or it has ended with a fault
AwaitOrExit(w, s) ==
    IF w.calls[s].pc = "awaiting" THEN w
    ELSE Finish(ExitAdapter(w, s, TRUE), s, "returned")

\* async call, up to "await wrapped_func(...)"
async_instrumented_generate_content(s, req, sink) ==
    /\ Free(s)
    /\ Installed(AsyncModels.generate_content)
    /\ Commit(AwaitOrExit(
            Then(EnterAdapter(BeginCall(World, s, "async"), s,
                              "google.genai.AsyncModels.generate_content",
                              req.self, req.environ, req.recording,
                              req.contents, req.config, sink),
                 s, LAMBDA w1 :
                        TryStatement(InvokeOriginal(w1, s, req.config, req.lib), s,
                                     LAMBDA w2 : [w2 EXCEPT !.calls[s].pc = "awaiting"],
                                     sink)),
            s))
    /\ UnchangedEntryPoints

\* async call, from the moment the awaited original comes back
AsyncResume(s, outcome, sink) ==
    /\ calls[s].shape = "async"
    /\ calls[s].pc = "awaiting"
    /\ Commit(Finish(ExitAdapter(AfterOriginal(World, s, outcome, sink), s, TRUE),
                      s, "returned"))
    /\ UnchangedEntryPoints

\* "except Exception as error" of the async stream adapter (lines 732-736)
\* "with trace.use_span(span, end_on_exit=True): pass"
UseSpanAndEnd(w, s) == WithExit(Attach(w, s), s, w.current, TRUE)

AwaitFailed(w, s, sink) ==
    IF ~IsException(w.calls[s].exc) THEN w
    ELSE IF sink \in {"set_attribute", "token_usage_metric", "operation_duration_metric"}
    THEN finalize_processing(process_error(w, s, w.calls[s].exc), s, sink)
    ELSE UseSpanAndEnd(finalize_processing(process_error(w, s, w.calls[s].exc), s, sink), s)

\* the try statement of the async stream adapter up to its await: a fault
\* raised while the arguments of the original are evaluated goes through
\* the except clause
AwaitStream(w, s, sink) ==
    IF Failed(w, s) THEN AwaitFailed(w, s, sink)
    ELSE [w EXCEPT !.calls[s].pc = "awaiting"]

\* the coroutine is suspended at its await, or it has ended with a fault
AwaitStreamOrExit(w, s) ==
    IF w.calls[s].pc = "awaiting" THEN w ELSE Finish(w, s, "returned")

\* async stream call, up to "await wrapped_func(...)"
async_instrumented_generate_content_stream(s, req, sink) ==
    /\ Free(s)
    /\ Installed(AsyncModels.generate_content_stream)
    /\ Commit(AwaitStreamOrExit(
            Then(ExitAdapter(
                     EnterAdapter(BeginCall(World, s, "async_stream"), s,
                                  "google.genai.AsyncModels.generate_content_stream",
                                  req.self, req.environ, req.recording,
                                  req.contents, req.config, sink),
                     s, FALSE),
                 s, LAMBDA w2 :
                        AwaitStream(InvokeOriginal(w2, s, req.config, req.lib), s, sink)),
            s))
    /\ UnchangedEntryPoints

\* async stream call, from the moment the awaited original comes back:
\* with the async sequence (the provider is returned) or with an exception
AsyncStreamResume(s, outcome, sink) ==
    /\ calls[s].shape = "async_stream"
    /\ calls[s].pc = "awaiting"
    /\ IF outcome.kind = "raise"
       THEN Commit(Finish(AwaitFailed(OriginalRaises(World, s, outcome.exc), s, sink),
                          s, "returned"))
       ELSE Commit([Log(World, s, "original_returned") EXCEPT
                        !.calls[s].pc = "provided", !.calls[s].result = "returned"])
    /\ UnchangedEntryPoints

\* _GeneratorProvider.__aiter__: a new generator over the same helper, span
\* and async sequence
Aiter(s, iterations) ==
    /\ Running
    /\ calls[s].shape = "async_stream"
    /\ calls[s].pc = "provided"
    /\ Len(calls[s].gens) < iterations
    /\ calls' = [calls EXCEPT ![s].gens = Append(@, FreshGen)]
    /\ UNCHANGED <<spans, current>>
    /\ UnchangedEntryPoints

\* __anext__ on generator g of an async stream call
Anext(s, g, outcome, sink) ==
    /\ Running
    /\ calls[s].shape = "async_stream"
    /\ calls[s].pc = "provided"
    /\ g \in 1..Len(calls[s].gens)
    /\ outcome \in StreamOutcomes(calls[s], AsyncFaults)
    /\ IF calls[s].gens[g].pc = "fresh"
       THEN Commit(StreamStep(Attach([World EXCEPT !.calls[s].gens[g].token = current], s),
                              s, g, outcome, sink))
       ELSE /\ calls[s].gens[g].pc = "yielded"
            /\ Commit(StreamStep(World, s, g, outcome, sink))
    /\ UnchangedEntryPoints

\* aclose() on generator g of an async stream call, or its finalization by
\* the event loop when the consumer abandons it
Aclose(s, g, sink) ==
    /\ Running
    /\ calls[s].shape = "async_stream"
    /\ calls[s].pc = "provided"
    /\ g \in 1..Len(calls[s].gens)
    /\ IF calls[s].gens[g].pc = "yielded"
       THEN Commit(ThrowGeneratorExit(World, s, g, sink))
       ELSE /\ calls[s].gens[g].pc = "fresh"
            /\ Commit([World EXCEPT !.calls[s].gens[g].pc = "finished",
                                    !.calls[s].gens[g].result = "closed"])
    /\ UnchangedEntryPoints

\* the consumer lets go of the provider of an async stream call; no
\* generator of it is suspended or waiting to start
Drop(s) ==
    /\ Running
    /\ calls[s].shape = "async_stream"
    /\ calls[s].pc = "provided"
    /\ \A g \in 1..Len(calls[s].gens) : calls[s].gens[g].pc = "finished"
    /\ calls' = [calls EXCEPT ![s].pc = "done"]
    /\ UNCHANGED <<spans, current>>
    /\ UnchangedEntryPoints

\* the caller is done with the outcome of the call of slot s
Forget(s) ==
    /\ Running
    /\ calls[s].pc = "done"
    /\ calls' = [calls EXCEPT ![s] = IdleCall]
    /\ spans' = [spans EXCEPT ![s] = NoSpan]
    /\ UNCHANGED current
    /\ UnchangedEntryPoints

(***************************************************************************)
(* Specification.                                                          *)
(***************************************************************************)
\* kept: whether the behaviour keeps the history of the uninstalls
InitWith(kept) ==
    /\ Models = [generate_content |-> Original("Models.generate_content"),
                 generate_content_stream |-> Original("Models.generate_content_stream")]
    /\ AsyncModels =
            [generate_content |-> Original("AsyncModels.generate_content"),
             generate_content_stream |-> Original("AsyncModels.generate_content_stream")]
    /\ snapshots = <<>>
    /\ bound_before = <<>>
    /\ calls = [s \in Slots |-> IdleCall]
    /\ spans = [s \in Slots |-> NoSpan]
    /\ current = 0
    /\ uninstall_raised = "none"
    /\ uninstalled = [kept |-> kept, times |-> [h \in 1..MaxInstalls |-> 0]]

Init == InitWith(FALSE)

\* the adapters
AllShapes == {"sync", "sync_stream", "async", "async_stream"}

\* the slots in which the client calls the adapter of the given shape
SlotsOf(shapes, shape) == {s \in DOMAIN shapes : shape \in shapes[s]}

\* the next-state relation with, for each slot in use, the adapters the
\* client calls in it, and the requests, the responses, the sink failures
\* and the iterations per async sequence drawn from the given sets
NextWith(shapes, requests, responses, sinks, iterations) ==
    \/ instrument_generate_content
    \/ \E snapshot \in UninstallArguments : uninstrument_generate_content(snapshot)
    \/ \E s \in SlotsOf(shapes, "sync"), req \in requests, sink \in sinks :
          \E outcome \in {Returns(r) : r \in responses} \cup {Raises(e) : e \in SyncFaults} :
            instrumented_generate_content(s, req, outcome, sink)
    \/ \E s \in SlotsOf(shapes, "sync_stream"), req \in requests :
            instrumented_generate_content_stream(s, req)
    \/ \E s \in DOMAIN shapes, sink \in sinks :
          \E outcome \in {Yields(r) : r \in responses} \cup {Raises(e) : e \in SyncFaults}
                         \cup {Exhausted} :
            GeneratorNext(s, outcome, sink)
    \/ \E s \in DOMAIN shapes, sink \in sinks : GeneratorClose(s, sink)
    \/ \E s \in SlotsOf(shapes, "async"), req \in requests, sink \in sinks :
            async_instrumented_generate_content(s, req, sink)
    \/ \E s \in DOMAIN shapes, sink \in sinks :
          \E outcome \in {Returns(r) : r \in responses} \cup {Raises(e) : e \in AsyncFaults} :
            AsyncResume(s, outcome, sink)
    \/ \E s \in SlotsOf(shapes, "async_stream"), req \in requests, sink \in sinks :
            async_instrumented_generate_content_stream(s, req, sink)
    \/ \E s \in DOMAIN shapes, sink \in sinks :
          \E outcome \in {Returns(None)} \cup {Raises(e) : e \in AsyncFaults} :
            AsyncStreamResume(s, outcome, sink)
    \/ \E s \in DOMAIN shapes : Aiter(s, iterations)
    \/ \E s \in DOMAIN shapes, g \in 1..iterations, sink \in sinks :
          \E outcome \in {Yields(r) : r \in responses} \cup {Raises(e) : e \in AsyncFaults}
                         \cup {Exhausted} :
            Anext(s, g, outcome, sink)
    \/ \E s \in DOMAIN shapes, g \in 1..iterations, sink \in sinks : Aclose(s, g, sink)
    \/ \E s \in DOMAIN shapes : Drop(s)
    \/ \E s \in DOMAIN shapes : Forget(s)

\* every request and every sink failure; one call at a time, two responses,
\* one iteration per async sequence
Next == NextWith((1 :> AllShapes), Requests, PlainResponses, SinkFailures, 1)

Spec == Init /\ [][Next]_vars

\* every response; two requests, a sink failure in process_response only,
\* one iteration per async sequence
NextResponses ==
    NextWith((1 :> AllShapes), PlainRequests, Responses, {"none", "log_response_content"}, 1)

SpecResponses == Init /\ [][NextResponses]_vars

\* the same calls as SpecResponses, with the history of the uninstalls kept
InitInstalls == InitWith(TRUE)

SpecInstalls == InitInstalls /\ [][NextResponses]_vars

\* every client instance and environment; one response, no sink failure,
\* one iteration per async sequence
NextSystems == NextWith((1 :> AllShapes), SystemRequests, {TwoCandidates}, {"none"}, 1)

SpecSystems == Init /\ [][NextSystems]_vars

\* repeated iteration of one async sequence; two requests, two responses,
\* no sink failure
NextIterations == NextWith((1 :> AllShapes), PlainRequests, PlainResponses, {"none"}, MaxAiter)

SpecIterations == Init /\ [][NextIterations]_vars

\* two calls in progress at the same time, the second a sync stream call;
\* one request, one response, no sink failure, one iteration per async
\* sequence
NextConcurrent ==
    NextWith((1 :> AllShapes) @@ (2 :> {"sync_stream"}),
             {PlainRequest}, {TwoCandidates}, {"none"}, 1)

SpecConcurrent == Init /\ [][NextConcurrent]_vars

(***************************************************************************)
(* Vocabulary of the properties.                                           *)
(***************************************************************************)
Labels(c) == {c.log[i] : i \in DOMAIN c.log}

Count(c, label) == Cardinality({i \in DOMAIN c.log : c.log[i] = label})

NonStreaming(c) == c.shape \in {"sync", "async"}

Streaming(c) == c.shape \in {"sync_stream", "async_stream"}

\* the original entry point gave the stream to the adapter
StreamObtained(c) ==
    \/ c.shape = "sync_stream" /\ "invoke" \in Labels(c)
    \/ c.shape = "async_stream" /\ "original_returned" \in Labels(c)

\* the fault the caller (or the consumer of the stream) received, "none" if
\* it received none
Received(c) ==
    IF c.shape = "async_stream" /\ c.gens # <<>>
    THEN c.gens[Len(c.gens)].raised
    ELSE c.raised

\* the finish reasons of the candidates of one response
ReasonsOf(response) ==
    LET candidates == response.fields["candidates"]
    IN  IF candidates = None THEN {}
        ELSE {candidates.items[i].fields["finish_reason"].name :
                i \in {j \in DOMAIN candidates.items :
                          candidates.items[j].fields["finish_reason"] # None}}

ObservedFinishReasons(c) == UNION {ReasonsOf(c.processed[i]) : i \in DOMAIN c.processed}

\* what one count of a usage record adds to a total: its value when it is
\* an integer (a Python bool is the integer 0 or 1), nothing otherwise
Contribution(count) ==
    CASE count.kind = "int" -> count.n
      [] count.kind = "bool" -> (IF count.b THEN 1 ELSE 0)
      [] OTHER -> 0

UsageCount(response, field) ==
    IF response.fields["usage_metadata"] = None THEN None
    ELSE response.fields["usage_metadata"].fields[field]

RECURSIVE SumOfCounts(_, _)
SumOfCounts(processed, field) ==
    IF processed = <<>> THEN 0
    ELSE Contribution(UsageCount(Head(processed), field))
         + SumOfCounts(Tail(processed), field)

\* the classification a response event calls for, None when it calls for none
Classification(response) ==
    LET candidates == response.fields["candidates"]
        prompt_feedback == response.fields["prompt_feedback"]
    IN  IF candidates # None /\ candidates.items # <<>> THEN None
        ELSE IF prompt_feedback = None THEN PyStr("NO_CANDIDATES")
        ELSE IF prompt_feedback.fields["block_reason"] = None THEN PyStr("NO_CANDIDATES")
        ELSE IF prompt_feedback.fields["block_reason"].name = "BLOCKED_REASON_UNSPECIFIED"
        THEN PyStr("NO_CANDIDATES")
        ELSE BlockedErrorType(prompt_feedback.fields["block_reason"].name)

RECURSIVE LastClassification(_)
LastClassification(processed) ==
    IF processed = <<>> THEN None
    ELSE IF Classification(processed[Len(processed)]) # None
    THEN Classification(processed[Len(processed)])
    ELSE LastClassification(SubSeq(processed, 1, Len(processed) - 1))

(***************************************************************************)
(* Properties.                                                             *)
(***************************************************************************)
\* C1: in a non-streaming call (sync or async generate_content) whose
\* original entry point was invoked, finalize_processing never runs before
\* the original has returned or raised, never runs twice, and has run
\* exactly once when the call is over, whether the original returned a
\* response or raised.
NonStreamingFinalizeOnce ==
    \A s \in Slots :
        LET c == calls[s]
        IN  NonStreaming(c) /\ "invoke" \in Labels(c) =>
                /\ Count(c, "finalize") <= 1
                /\ \A i \in DOMAIN c.log :
                        c.log[i] = "finalize" =>
                            \E j \in 1..(i - 1) :
                                c.log[j] \in {"original_produced", "original_raised"}
                /\ c.pc = "done" => Count(c, "finalize") = 1

\* an async call is over, its awaited original was cancelled, finalize ran once
NonStreamingFinalizeOnceWitness ==
    \E s \in Slots :
        /\ calls[s].shape = "async"
        /\ calls[s].pc = "done"
        /\ calls[s].orig_raised = "CancelledError"
        /\ Count(calls[s], "finalize") = 1

\* C2: in a streaming call (sync stream or async stream) whose stream was
\* obtained from the original, finalize_processing has run exactly once when
\* the consumer is done with the stream: after exhaustion, after the
\* consumer abandoned or closed it at any chunk, after a fault of the stream.
StreamFinalizeOnce ==
    \A s \in Slots :
        LET c == calls[s]
        IN  Streaming(c) /\ StreamObtained(c) /\ c.pc = "done" =>
                Count(c, "finalize") = 1

\* C3: uninstrument_generate_content with the snapshot that an install
\* returned leaves each of the four entry points bound to the very callable
\* that was bound when that install began, whatever calls were made since.
RestoreRoundTrip ==
    [][\A h \in 1..MaxInstalls :
           uninstrument_generate_content(SnapshotObject(h)) =>
               /\ Models' = bound_before[h].Models
               /\ AsyncModels' = bound_before[h].AsyncModels]_vars

\* a call went through an adapter and delivered a response, and the entry
\* points are again the ones bound before the first install
RestoreRoundTripWitness ==
    /\ snapshots # <<>>
    /\ Models = bound_before[1].Models
    /\ AsyncModels = bound_before[1].AsyncModels
    /\ \E s \in Slots : calls[s].pc = "done" /\ calls[s].delivered # <<>>

\* C4: the finish-reason attribute that finalize_processing writes is the
\* sorted, duplicate-free list of the finish reasons of all candidates of
\* all responses processed for the call.
FinishReasonsRecorded ==
    \A s \in Slots :
        \A i \in DOMAIN calls[s].final_attrs :
            calls[s].final_attrs[i].finish_reasons =
                PyList(Sorted(ObservedFinishReasons(calls[s])))

\* C5: the input and output token values that finalize_processing writes
\* to the span and records as token-usage metrics are the sums, over the
\* responses processed for the call, of prompt_token_count and of
\* candidates_token_count, a count that is absent or not a number adding
\* nothing.
TokenTotalsAreSums ==
    \A s \in Slots :
        LET c == calls[s]
            input == SumOfCounts(c.processed, "prompt_token_count")
            output == SumOfCounts(c.processed, "candidates_token_count")
        IN  /\ \A i \in DOMAIN c.final_attrs :
                    /\ c.final_attrs[i].input_tokens = PyInt(input)
                    /\ c.final_attrs[i].output_tokens = PyInt(output)
            /\ \A i \in DOMAIN c.token_usage :
                    c.token_usage[i].value =
                        IF c.token_usage[i].gen_ai_token_type = "input"
                        THEN input ELSE output

\* a stream of two different chunks was finalized with output tokens 3
TokenTotalsAreSumsWitness ==
    \E s \in Slots :
        /\ Len(calls[s].processed) = 2
        /\ calls[s].processed[1] # calls[s].processed[2]
        /\ Len(calls[s].token_usage) = 2
        /\ calls[s].token_usage[2].gen_ai_token_type = "output"
        /\ calls[s].token_usage[2].value = 3

\* C6: when the original entry point, or the iteration of the stream it
\* returned, raises a fault E, the call's error classification is the name
\* of E's class and the caller receives E itself.
FaultClassifiedAndReraised ==
    \A s \in Slots :
        LET c == calls[s]
        IN  c.pc = "done" /\ c.orig_raised # "none" =>
                /\ c._error_type = PyStr(c.orig_raised)
                /\ Received(c) = c.orig_raised

\* C7: whatever the request (no config, a config object, a config mapping,
\* tools or none), the caller of an adapter receives a fault only if the
\* original raised it, and otherwise receives exactly the responses the
\* original produced, in order.  (A failure of the telemetry sink is not a
\* case of this property.)
TransparentToCaller ==
    \A s \in Slots :
        LET c == calls[s]
        IN  c.pc = "done" /\ c.constructed /\ Received(c) # "SinkError" =>
                /\ Received(c) # "none" => Received(c) = c.orig_raised
                /\ Received(c) = "none" => c.delivered = c.produced

\* C8: while no fault has been classified, the call's error classification
\* is the one its last zero-candidate response calls for: NO_CANDIDATES
\* when the prompt feedback is absent, has no block reason or has the
\* unspecified one, BLOCKED_<X> for a specific block reason X; a response
\* with a candidate leaves the classification as it was.
ZeroCandidateClassification ==
    \A s \in Slots :
        LET c == calls[s]
        IN  c.constructed /\ "process_error" \notin Labels(c) =>
                c._error_type = LastClassification(c.processed)

\* a response blocked for SAFETY was followed by one with a candidate, and
\* the classification is still BLOCKED_SAFETY
ZeroCandidateClassificationWitness ==
    \E s \in Slots :
        /\ Len(calls[s].processed) = 2
        /\ Classification(calls[s].processed[2]) = None
        /\ "process_error" \notin Labels(calls[s])
        /\ calls[s]._error_type = PyStr("BLOCKED_SAFETY")

\* C9: an adapter call that constructed its helper and ended before the
\* original entry point was invoked (a fault in process_request or in the
\* wrapping of the configuration) has run finalize_processing.
FinalizeOnEveryExit ==
    \A s \in Slots :
        LET c == calls[s]
        IN  c.pc = "done" /\ c.constructed /\ "invoke" \notin Labels(c) =>
                Count(c, "finalize") >= 1

\* C10: finalize_processing does not raise: a call whose original raised E
\* delivers E to the caller, and a non-streaming call whose original
\* returned a response that was processed without a fault returns it.
FinalizeContained ==
    \A s \in Slots :
        LET c == calls[s]
        IN  c.pc = "done" =>
                /\ c.orig_raised # "none" => Received(c) = c.orig_raised
                /\ ( /\ NonStreaming(c)
                     /\ c.produced # <<>>
                     /\ c._error_type # PyStr("SinkError") ) =>
                        c.result = "returned" /\ c.delivered = c.produced

\* the four entry points as bound now
EntryPoints ==
    {Models.generate_content, Models.generate_content_stream,
     AsyncModels.generate_content, AsyncModels.generate_content_stream}

InEffect(snapshot) ==
    /\ IsMethodsSnapshot(snapshot)
    /\ \A entry \in EntryPoints :
           entry.kind = "instrumented" /\ entry.install = snapshot.handle

\* C12: uninstrument_generate_content given anything but the snapshot of
\* the install in effect (a value that is no snapshot, or the snapshot of an
\* install already uninstalled or superseded) raises and leaves the four
\* entry points as they were.
UninstallRejectsForeignHandle ==
    [][\A snapshot \in UninstallArguments :
           uninstrument_generate_content(snapshot) /\ ~InEffect(snapshot) =>
               /\ UNCHANGED <<Models, AsyncModels>>
               /\ uninstall_raised' = "AssertionError"]_vars

\* C13: for an async stream call whose initial await succeeded, the span
\* is open while a generator of the returned sequence is suspended at a
\* yield, it is never ended twice, and once the consumer is done with the
\* sequence (exhausted, abandoned or faulted) it has been ended exactly once.
AsyncStreamSpanEndedOnce ==
    \A s \in Slots :
        LET c == calls[s]
        IN  c.shape = "async_stream" /\ "original_returned" \in Labels(c) =>
                /\ spans[s].ends <= 1
                /\ \A g \in 1..Len(c.gens) :
                       c.gens[g].pc = "yielded" => spans[s].state = "open"
                /\ c.pc = "done" => spans[s].ends = 1

\* C14: an async stream call whose initial await of the original raised E
\* (an error or a cancellation of the task) ends with E classified as the
\* error type, finalize_processing run once, the span ended, E raised to the
\* caller and no wrapper of a sequence created.  (A failure of the sink
\* while the fault is handled is not a case of this property.)
InitialAwaitFaultHandled ==
    \A s \in Slots :
        LET c == calls[s]
        IN  ( /\ c.shape = "async_stream"
              /\ c.pc = "done"
              /\ c.orig_raised # "none"
              /\ "original_returned" \notin Labels(c)
              /\ c.raised # "SinkError" ) =>
                /\ c._error_type = PyStr(c.orig_raised)
                /\ Count(c, "finalize") = 1
                /\ spans[s].state = "ended" /\ spans[s].ends = 1
                /\ c.raised = c.orig_raised
                /\ c.gens = <<>>

\* the types of the events the sink received for call c
EventTypes(c) == {c.events[i].type : i \in 1..Len(c.events)}

\* C15: when content recording is disabled, the content of every logged
\* body (system prompt, user prompt, response content) is the fixed
\* placeholder, whatever the prompt, the system instruction and the
\* response are, and the span still carries the system, the request model
\* and the operation name of the call.
ContentElidedWhenDisabled ==
    \A s \in Slots :
        LET c == calls[s]
        IN  c.constructed /\ ~c._content_recording_enabled =>
                /\ \A i \in 1..Len(c.events) :
                       /\ "content" \in DOMAIN c.events[i].body
                       /\ c.events[i].body["content"] = _CONTENT_ELIDED
                /\ spans[s].state # "none" =>
                       /\ c._genai_system \in
                              {_get_vertexai_system_name, _get_gemini_system_name}
                       /\ spans[s].attrs.gen_ai_system = PyStr(c._genai_system)
                       /\ spans[s].attrs.gen_ai_request_model = PyStr(ModelName)
                       /\ spans[s].attrs.gen_ai_operation_name =
                              PyStr(_GENERATE_CONTENT_OP_NAME)

\* a call with recording disabled has logged a system prompt, a user
\* prompt and a response candidate, and is over
ContentElidedWhenDisabledWitness ==
    \E s \in Slots :
        /\ calls[s].pc = "done"
        /\ ~calls[s]._content_recording_enabled
        /\ EventTypes(calls[s]) =
               {"log_system_prompt", "log_user_prompt", "log_response_content"}
        /\ spans[s].state = "ended"

\* the tools of a configuration (a mapping or an object), <<>> if it has none
ToolsOf(config) ==
    IF config = None \/ "tools" \notin DOMAIN config.fields THEN <<>>
    ELSE IF config.fields["tools"] = None THEN <<>>
    ELSE config.fields["tools"].items

\* entry `passed` stands for `tool` in the configuration given to the
\* original: a wrapper of it if it is a sync callable, itself otherwise
StandsFor(passed, tool) ==
    IF Callable(tool) /\ ~tool.coroutine
    THEN /\ Callable(passed) /\ "wraps" \in DOMAIN passed
         /\ passed.wraps = tool
    ELSE passed = tool

\* C16: a call whose configuration holds tools reaches the original entry
\* point, with a configuration whose tools list has, position by position,
\* a traced wrapper of each sync callable tool and the very same object for
\* each coroutine tool and each non-callable entry.  (A call that a failure
\* of the sink ended is not a case of this property.)
ToolsWrappedInPlace ==
    \A s \in Slots :
        LET c == calls[s]
        IN  ( /\ c.pc = "done"
              /\ c.constructed
              /\ ToolsOf(c.given[1].config) # <<>>
              /\ Received(c) # "SinkError" ) =>
                /\ "invoke" \in Labels(c)
                /\ LET tools == ToolsOf(c.given[1].config)
                       passed == ToolsOf(c.passed_config[1])
                   IN  /\ Len(passed) = Len(tools)
                       /\ \A i \in 1..Len(tools) : StandsFor(passed[i], tools[i])

\* C17: the adapters leave the caller's objects alone: at every point of a
\* call the configuration and the contents the caller passed are as they
\* were given; the tools are substituted on a copy, and the caller's
\* configuration still holds its own tools.
CallerObjectsUntouched ==
    \A s \in Slots :
        calls[s].constructed => calls[s].caller = calls[s].given

\* a call with tools is over whose original received a copy carrying the
\* substituted list, while the caller's configuration holds its tools and
\* no such list
CallerObjectsUntouchedWitness ==
    \E s \in Slots :
        LET c == calls[s]
        IN  /\ c.pc = "done"
            /\ "invoke" \in Labels(c)
            /\ ToolsOf(c.given[1].config) # <<>>
            /\ "tool" \in DOMAIN c.passed_config[1].fields
            /\ "tool" \notin DOMAIN c.caller[1].config.fields
            /\ ToolsOf(c.caller[1].config) = ToolsOf(c.given[1].config)

\* C18: the span opened for a call is the current span while the call is in
\* progress: while the awaited original executes (the initial await of the
\* async stream adapter included) and while a generator of the call is
\* suspended between two iteration steps.
SpanCurrentDuringCall ==
    \A s \in Slots :
        LET c == calls[s]
        IN  /\ c.pc = "awaiting" => current = s /\ spans[s].state = "open"
            /\ ( /\ c.pc = "provided"
                 /\ \E g \in 1..Len(c.gens) : c.gens[g].pc = "yielded" ) =>
                    current = s

\* C19: whenever finalize_processing of a call writes the final span
\* attributes, it writes them to the span opened for that call while that
\* span is open: the span named by every write is the call's own, and the
\* call's span carries the attributes afterwards.
FinalAttributesOnOwnSpan ==
    \A s \in Slots :
        LET c == calls[s]
        IN  \A i \in 1..Len(c.final_attrs) :
                /\ c.final_attrs[i].span = s
                /\ "gen_ai.usage.input_tokens" \in DOMAIN spans[s].attrs

\* the number of candidates in the responses processed
RECURSIVE CandidatesIn(_)
CandidatesIn(processed) ==
    IF processed = <<>> THEN 0
    ELSE Len(Head(processed).fields["candidates"].items) + CandidatesIn(Tail(processed))

\* C20: with two streaming calls in progress whose iteration steps are
\* interleaved, each call's token totals, candidate index and error
\* classification are those of its own response and error events, and the
\* final span attributes that a streaming call writes once it has obtained
\* its stream are never written to the span of the other call.  (A call
\* in which the sink failed is not a case of this property.)
NoCrossTalk ==
    \A s \in Slots :
        LET c == calls[s]
        IN  c.constructed /\ c._error_type # PyStr("SinkError") =>
                /\ c._input_tokens = SumOfCounts(c.processed, "prompt_token_count")
                /\ c._output_tokens = SumOfCounts(c.processed, "candidates_token_count")
                /\ c._candidate_index = CandidatesIn(c.processed)
                /\ "process_error" \notin Labels(c) =>
                       c._error_type = LastClassification(c.processed)
                /\ "process_error" \in Labels(c) /\ c.orig_raised # "none" =>
                       c._error_type = PyStr(c.orig_raised)
                /\ Streaming(c) /\ StreamObtained(c) =>
                       \A i \in 1..Len(c.final_attrs) :
                           c.final_attrs[i].span \notin Slots \ {s}

\* the response-log events the sink received for call c, in order
ResponseLogEvents(c) ==
    SelectSeq(c.events, LAMBDA e : e.type = "log_response_content")

\* the number of candidates of one response
CandidateCount(response) ==
    IF response.fields["candidates"] = None THEN 0
    ELSE Len(response.fields["candidates"].items)

\* the number of candidates of the responses processed
RECURSIVE CandidatesProcessed(_)
CandidatesProcessed(processed) ==
    IF processed = <<>> THEN 0
    ELSE CandidateCount(Head(processed)) + CandidatesProcessed(Tail(processed))

\* C21: within one call there is exactly one response-log event per
\* candidate of the responses processed, and the i-th of them carries index
\* i - 1: the index starts at 0 in every call, grows by one per candidate,
\* is not reset between the responses of a stream, and a response without
\* candidates logs nothing and leaves it alone.  (A call in which the sink
\* failed is not a case of this property.)
CandidateIndexFlattened ==
    \A s \in Slots :
        LET c == calls[s]
            logged == ResponseLogEvents(c)
        IN  c.constructed /\ c._error_type # PyStr("SinkError") =>
                /\ Len(logged) = CandidatesProcessed(c.processed)
                /\ c._candidate_index = Len(logged)
                /\ \A i \in 1..Len(logged) : logged[i].body["index"] = PyInt(i - 1)

\* a stream of two chunks of two candidates each has logged four events,
\* the last with index 3
CandidateIndexFlattenedWitness ==
    \E s \in Slots :
        /\ Len(calls[s].processed) = 2
        /\ Len(ResponseLogEvents(calls[s])) = 4
        /\ ResponseLogEvents(calls[s])[4].body["index"] = PyInt(3)

\* the position in the log of call c of the n-th step labelled label, 0 if
\* there is none
RECURSIVE PositionFrom(_, _, _, _)
PositionFrom(log, label, n, i) ==
    IF i > Len(log) THEN 0
    ELSE IF log[i] # label THEN PositionFrom(log, label, n, i + 1)
    ELSE IF n = 1 THEN i
    ELSE PositionFrom(log, label, n - 1, i + 1)

Position(c, label, n) == PositionFrom(c.log, label, n, 1)

\* C22: the responses of one call are processed in the order the original
\* produced them, each exactly once and each before it is handed to the
\* caller or consumer; a non-streaming call processes at most one, and a
\* stream asks the original for its next chunk only once the consumer has
\* received the previous one and asked again.
ResponsesProcessedInOrder ==
    \A s \in Slots :
        LET c == calls[s]
        IN  /\ c.processed = c.produced
            /\ Count(c, "process_response") = Len(c.produced)
            /\ Len(c.delivered) <= Len(c.processed)
            /\ c.delivered = SubSeq(c.processed, 1, Len(c.delivered))
            /\ Len(c.processed) - Len(c.delivered) <= 1
            /\ NonStreaming(c) => Len(c.produced) <= 1
            /\ \A n \in 1..Len(c.delivered) :
                   /\ Position(c, "original_produced", n) < Position(c, "process_response", n)
                   /\ Position(c, "process_response", n) < Position(c, "deliver", n)
                   /\ n < Len(c.produced) =>
                          Position(c, "deliver", n) < Position(c, "original_produced", n + 1)
            /\ \A g \in 1..Len(c.gens) :
                   c.gens[g].pc = "yielded" => c.delivered = c.produced

\* a stream delivered two different chunks and its third request ended it
ResponsesProcessedInOrderWitness ==
    \E s \in Slots :
        /\ Streaming(calls[s])
        /\ calls[s].pc = "done"
        /\ Len(calls[s].delivered) = 2
        /\ calls[s].delivered[1] # calls[s].delivered[2]
        /\ calls[s].exhausted

\* the number of responses processed that call for a classification
RECURSIVE ClassifyingResponses(_)
ClassifyingResponses(processed) ==
    IF processed = <<>> THEN 0
    ELSE (IF Classification(Head(processed)) # None THEN 1 ELSE 0)
         + ClassifyingResponses(Tail(processed))

\* the classification of the last classifying event of call c: the fault
\* the original raised, which ends the call, or else the last response that
\* calls for one
LastEventClassification(c) ==
    IF c.orig_raised # "none" THEN PyStr(c.orig_raised)
    ELSE LastClassification(c.processed)

\* C23: when two or more events of one call yield an error classification
\* (zero-candidate or blocked responses, a fault raised by the original),
\* every duration record of the call carries the classification of the last
\* of them; a fault raised after a zero-candidate chunk replaces
\* NO_CANDIDATES by the name of the fault's class.  (A call in which the
\* sink failed is not a case of this property.)
LastClassificationOnDuration ==
    \A s \in Slots :
        LET c == calls[s]
        IN  ( /\ ClassifyingResponses(c.processed)
                     + (IF c.orig_raised # "none" THEN 1 ELSE 0) >= 2
              /\ c._error_type # PyStr("SinkError") ) =>
                \A i \in 1..Len(c.duration) :
                    /\ "error_type" \in DOMAIN c.duration[i]
                    /\ c.duration[i].error_type = LastEventClassification(c)

\* a fault of an error class (one that derives from Exception) was raised
\* in call c: by the original, or received by the caller or the consumer
ErrorClassFault(c) == IsException(c.orig_raised) \/ IsException(Received(c))

\* C24: the duration record written at finalize carries no error type if
\* and only if no response processed had zero candidates and no fault of an
\* error class was raised; a classification once set is never cleared by a
\* later response that has candidates.
ErrorTypeUnsetIffNoError ==
    \A s \in Slots :
        LET c == calls[s]
        IN  \A i \in 1..Len(c.duration) :
                "error_type" \notin DOMAIN c.duration[i] <=>
                    ClassifyingResponses(c.processed) = 0 /\ ~ErrorClassFault(c)

\* a stream whose first chunk had no candidates and whose second chunk had
\* some ended normally, and its duration record carries NO_CANDIDATES
ErrorTypeUnsetIffNoErrorWitness ==
    \E s \in Slots :
        LET c == calls[s]
        IN  /\ Len(c.processed) = 2
            /\ Classification(c.processed[1]) # None
            /\ CandidateCount(c.processed[2]) > 0
            /\ c.exhausted
            /\ Len(c.duration) = 1
            /\ "error_type" \in DOMAIN c.duration[1]
            /\ c.duration[1].error_type = PyStr("NO_CANDIDATES")

\* the tags every metric record of call c carries
TaggedWithCall(record, c) ==
    /\ record.gen_ai_system = c._genai_system
    /\ record.gen_ai_request_model = c._genai_request_model
    /\ record.gen_ai_operation_name = _GENERATE_CONTENT_OP_NAME

\* C25: each run of finalize_processing records exactly two token-usage
\* observations, the first tagged input and the second tagged output, and
\* exactly one duration observation, all tagged with the system, the
\* request model and the operation of the call; the duration observation
\* carries the error type exactly when the error classification is set.
FinalizeRecordsMetrics ==
    \A s \in Slots :
        LET c == calls[s]
            n == Count(c, "finalize")
        IN  /\ Len(c.token_usage) = 2 * n
            /\ Len(c.duration) = n
            /\ \A i \in 1..Len(c.token_usage) :
                   /\ TaggedWithCall(c.token_usage[i], c)
                   /\ c.token_usage[i].gen_ai_token_type =
                          IF i % 2 = 1 THEN "input" ELSE "output"
            /\ \A i \in 1..Len(c.duration) :
                   /\ TaggedWithCall(c.duration[i], c)
                   /\ "error_type" \in DOMAIN c.duration[i] <=> c._error_type # None
                   /\ "error_type" \in DOMAIN c.duration[i] =>
                          c.duration[i].error_type = c._error_type


\* C26: no response event decreases a token counter: in every step in which
\* a call processes a response, each of its two counters is afterwards at
\* least what it was before.
TokenCountersNeverDecrease ==
    [][\A s \in Slots :
           Len(calls'[s].processed) > Len(calls[s].processed) =>
               /\ calls'[s]._input_tokens >= calls[s]._input_tokens
               /\ calls'[s]._output_tokens >= calls[s]._output_tokens]_vars


\* every install made so far had its snapshot restored exactly once
EachHandleUninstalledOnce ==
    /\ snapshots # <<>>
    /\ uninstalled.kept
    /\ \A h \in 1..MaxInstalls :
           uninstalled.times[h] = IF h <= Len(snapshots) THEN 1 ELSE 0

\* C27: once every snapshot that an install returned has been given to
\* uninstrument_generate_content exactly once, in whatever order, the four
\* entry points are the very callables that were bound before the first
\* install.
AllUninstalledRestoresOriginals ==
    EachHandleUninstalledOnce =>
        /\ Models = bound_before[1].Models
        /\ AsyncModels = bound_before[1].AsyncModels


\* the consumer of the sync stream call c has requested no element: the
\* generator was never resumed (it is as created, or it was closed or
\* collected in that state)
NeverIterated(c) ==
    /\ c.shape = "sync_stream"
    /\ \/ c.gens[1].pc = "fresh"
       \/ /\ c.gens[1].pc = "finished"
          /\ c.gens[1].result = "closed"
          /\ c.delivered = <<>>

\* C28: the sync stream adapter is lazy: as long as the consumer has
\* requested no element of the stream it returned, no helper object was
\* constructed, no span was opened or made current, the original entry
\* point was not invoked, and no log event and no metric was produced;
\* this stays so when the stream is dropped without being iterated.
SyncStreamLazy ==
    \A s \in Slots :
        LET c == calls[s]
        IN  NeverIterated(c) =>
                /\ ~c.constructed
                /\ spans[s] = NoSpan
                /\ current # s
                /\ c.log = <<>>
                /\ c.passed_config = <<>> /\ c.produced = <<>>
                /\ c.events = <<>>
                /\ c.token_usage = <<>> /\ c.duration = <<>>
                /\ c.final_attrs = <<>>

\* a stream was obtained and dropped without being iterated, and the call
\* is over
SyncStreamLazyWitness ==
    \E s \in Slots :
        /\ NeverIterated(calls[s])
        /\ calls[s].pc = "done"
        /\ calls[s].gens[1].result = "closed"


\* the value of attribute `name` of object o, None when o has no such attribute
FlagOf(o, name) == IF name \in DOMAIN o.fields THEN o.fields[name] ELSE None

\* the values of GOOGLE_GENAI_USE_VERTEXAI that select Vertex AI
VertexToggles == {"true", "True", "TRUE", "tRuE", "1"}

\* the backend system by ordered fallback: the flag of the client instance
\* when it is not None; else the flag of the legacy internal client when
\* there is one and its flag is not None; else the environment toggle
ResolvedSystem(self, environ) ==
    LET instance == FlagOf(self, "vertexai")
        internal == FlagOf(self, "_api_client")
        legacy == IF internal = None THEN None ELSE FlagOf(internal, "vertexai")
        decided == IF instance # None THEN instance ELSE legacy
    IN  IF decided # None
        THEN (IF decided = PyBool(TRUE) THEN "vertex_ai" ELSE "gemini")
        ELSE IF "GOOGLE_GENAI_USE_VERTEXAI" \in DOMAIN environ
                /\ environ["GOOGLE_GENAI_USE_VERTEXAI"] \in VertexToggles
             THEN "vertex_ai"
             ELSE "gemini"

\* C29: the backend system of a call is the one the ordered fallback gives
\* for its client instance and environment, from the construction of the
\* helper object on and unchanged for the rest of the call; a flag that is
\* false decides for Gemini and never falls through to a later source.
SystemResolvedByFallback ==
    \A s \in Slots :
        LET c == calls[s]
        IN  c.constructed =>
                /\ c._genai_system = ResolvedSystem(c.given[1].self, c.given[1].environ)
                /\ c._genai_system \in {"vertex_ai", "gemini"}

\* a call is over whose client instance says false while its legacy client
\* and the environment both say Vertex AI, and the system is Gemini
SystemResolvedByFallbackWitness ==
    \E s \in Slots :
        LET c == calls[s]
        IN  /\ c.pc = "done"
            /\ FlagOf(c.given[1].self, "vertexai") = PyBool(FALSE)
            /\ FlagOf(c.given[1].self, "_api_client") # None
            /\ c.given[1].environ # EmptyEnviron
            /\ c.given[1].environ["GOOGLE_GENAI_USE_VERTEXAI"] = "TRUE"
            /\ c._genai_system = "gemini"


\* the configuration fields that process_request asks the extractor for
ExtractedFields == {"temperature", "top_k", "top_p", "system_instruction"}

\* config is not a mapping and lacks an attribute that is asked for
LacksAttribute(config) ==
    config.kind = "obj" /\ \E name \in ExtractedFields : name \notin DOMAIN config.fields

\* what the extractor is to return for field `name` of a config that lacks
\* no attribute: None for an absent config and for a key that is missing
FieldOf(config, name) ==
    IF config = None THEN None
    ELSE IF name \in DOMAIN config.fields THEN config.fields[name]
    ELSE None

\* C30: the field extractor returns None without raising when the container
\* is absent, when a segment before the last resolves to None, and when a
\* mapping lacks the key; it raises (AttributeError) only when a container
\* that is no mapping lacks the attribute.  Seen on the call: a
\* configuration that lacks no attribute never makes the call raise
\* AttributeError, its request attributes are exactly the fields that are
\* not None, and a response without usage metadata is processed without a
\* fault; a configuration object that lacks an attribute makes
\* process_request raise AttributeError before the original is invoked.
ExtractorBenignOnAbsent ==
    \A s \in Slots :
        LET c == calls[s]
            config == c.given[1].config
        IN  c.constructed =>
                IF LacksAttribute(config)
                THEN /\ "invoke" \notin Labels(c)
                     /\ c.pc = "done" => Received(c) = "AttributeError"
                ELSE /\ Received(c) # "AttributeError"
                     /\ c._error_type # PyStr("AttributeError")
                     \* process_request ends early only on a failure of the
                     \* sink or of the conversion of the content
                     /\ ( /\ c.pc = "done"
                          /\ "invoke" \notin Labels(c)
                          /\ "process_error" \notin Labels(c) ) =>
                            Received(c) \in {"SinkError", "TypeError"}
                     /\ "invoke" \in Labels(c) =>
                            \A name \in {"temperature", "top_k", "top_p"} :
                                LET key == "gen_ai.request." \o name
                                IN  IF FieldOf(config, name) = None
                                    THEN key \notin DOMAIN spans[s].attrs
                                    ELSE /\ key \in DOMAIN spans[s].attrs
                                         /\ spans[s].attrs[key] = FieldOf(config, name)

\* a call is over whose configuration is a mapping without top_k, whose
\* response had no usage metadata, and whose span has the temperature and no
\* top_k
ExtractorBenignOnAbsentWitness ==
    \E s \in Slots :
        LET c == calls[s]
        IN  /\ c.pc = "done"
            /\ c.given[1].config.kind = "dict"
            /\ "top_k" \notin DOMAIN c.given[1].config.fields
            /\ c.delivered # <<>>
            /\ c.delivered[1].fields["usage_metadata"] = None
            /\ "gen_ai.request.temperature" \in DOMAIN spans[s].attrs
            /\ "gen_ai.request.top_k" \notin DOMAIN spans[s].attrs
=============================================================================
